---- MODULE Spec2Model ----
(***************************************************************************)
(* Model of advanced-vector/vector.h: RawMemory<T> (an owned raw region)   *)
(* and Vector<T> (live elements inside that region).                       *)
(*                                                                         *)
(* The heap is a set of regions; a region is a sequence of slots.  A slot  *)
(* is Raw (no object), Moved (a live object in the moved-from state) or a  *)
(* value (a live object holding that value).  Every public operation of    *)
(* Vector is one action; the places where the element type or the          *)
(* allocator may throw are an input of the action (a Failures record).     *)
(***************************************************************************)
EXTENDS Integers, Sequences, FiniteSets

\* Largest capacity and size argument explored for a single Vector, and for
\* each of two Vectors.
MaxCap == 4
MaxPair == 2

\* A slot of raw memory that holds no object (operator new, line 90).
Raw == -1
\* A live object that has been moved from (std::move of an element).
Moved == -2
\* The value of a value-initialised element, T().
DefaultValue == 0
\* Some other element value.
OtherValue == 1
Values == {DefaultValue, OtherValue}

\* The Vector objects of the program, and the two kinds of temporaries the
\* code creates: `Vector tmp(rhs)` and `RawMemory tmp(std::move(rhs))`.
Vecs == {1, 2}
TmpVec == 0
TmpRaw == -1
Objs == Vecs \cup {TmpVec, TmpRaw}

\* nullptr, and the regions operator new can hand out.
Null == 0
Regions == 1..(Cardinality(Vecs) + 1)

\* Relocation strategy of the element type, the `if constexpr` of lines 324, 375:
\* "move" when T is nothrow-move-constructible or not copy-constructible,
\* "copy" otherwise.
Kinds == {"move", "copy"}

\* Where an operation fails: nowhere, in operator new, in the construction of
\* the new element from the arguments, in the k-th copy construction of an
\* existing element, in the k-th value construction, or in the k-th element
\* assignment of a copy assignment.
NoFail == [at |-> "none", k |-> 0]
AllocFail == [at |-> "alloc", k |-> 0]
ArgFail == [at |-> "arg", k |-> 0]
CopyFail(k) == [at |-> "copy", k |-> k]
ElemFail(k) == [at |-> "elem", k |-> k]
AssignFail(k) == [at |-> "assign", k |-> k]
Failures ==
    {NoFail, AllocFail, ArgFail} \cup {CopyFail(k) : k \in 1..MaxCap}
        \cup {ElemFail(k) : k \in 1..MaxCap} \cup {AssignFail(k) : k \in 1..MaxCap}

VARIABLES kind, vec, heap, last
vars == <<kind, vec, heap, last>>

----------------------------------------------------------------------------
\* RawMemory

\* RawMemory() = default: buffer_ = nullptr, capacity_ = 0.
EmptyRaw == [buffer_ |-> Null, capacity_ |-> 0]

\* A Vector object that does not exist (before construction, after destruction).
NoVector == [alive |-> FALSE, data_ |-> EmptyRaw, size_ |-> 0]
\* Vector() = default.
EmptyVector == [alive |-> TRUE, data_ |-> EmptyRaw, size_ |-> 0]

\* The bookkeeping of one operation: the heap, whether a live element was lost
\* (its storage released or reused without its destructor having run), and
\* whether a region was released twice.
World(h) == [heap |-> h, lost |-> FALSE, dbl |-> FALSE]

FreeRegions(h) == {r \in Regions : ~h[r].alloc}
HasFree == FreeRegions(heap) # {}
MinOf(S) == CHOOSE r \in S : \A q \in S : r <= q

\* An Allocate without the test of line 90: a region for n = 0 too.
Allocate_AlsoForZero(w, n) ==
    LET r == MinOf(FreeRegions(w.heap))
    IN [w |-> [w EXCEPT !.heap[r] = [alloc |-> TRUE, slots |-> [i \in 1..n |-> Raw]]],
        p |-> r]

\* RawMemory::Allocate: nullptr for n = 0, else a fresh region of n raw slots.
Allocate(w, n) ==
    IF n = 0 THEN [w |-> w, p |-> Null]
    ELSE LET r == MinOf(FreeRegions(w.heap))
         IN [w |-> [w EXCEPT !.heap[r] = [alloc |-> TRUE, slots |-> [i \in 1..n |-> Raw]]],
             p |-> r]

\* RawMemory::Deallocate / ~RawMemory: operator delete(buf); no element is destroyed.
Deallocate(w, p) ==
    IF p = Null THEN w
    ELSE IF ~w.heap[p].alloc THEN [w EXCEPT !.dbl = TRUE]
    ELSE [w EXCEPT !.heap[p] = [alloc |-> FALSE, slots |-> <<>>],
                   !.lost = @ \/ (\E i \in DOMAIN w.heap[p].slots : w.heap[p].slots[i] # Raw)]

\* RawMemoryMove without lines 26-27: the source keeps its region.
RawMemoryMove_KeepsSource(other) ==
    [obj |-> [buffer_ |-> other.buffer_, capacity_ |-> other.capacity_],
     other |-> other]

\* RawMemoryMove without line 25: the capacity is not taken over.
RawMemoryMove_DropsCapacity(other) ==
    [obj |-> [buffer_ |-> other.buffer_, capacity_ |-> 0],
     other |-> [buffer_ |-> Null, capacity_ |-> 0]]

\* RawMemory(RawMemory&& other): take the region, leave other empty.
RawMemoryMove(other) ==
    [obj |-> [buffer_ |-> other.buffer_, capacity_ |-> other.capacity_],
     other |-> [buffer_ |-> Null, capacity_ |-> 0]]

\* RawMemory::Swap on two distinct objects.
RawMemorySwap(a, b) == [a |-> b, b |-> a]

\* RawMemory::operator=(RawMemory&& rhs) on the objects S[this].data_ and
\* S[rhs].data_ (which may be the same object):
\* RawMemory tmp(std::move(rhs)); this->Swap(tmp); ~tmp.
RawMemoryMoveAssign(S, w, this, rhs) ==
    LET mv == RawMemoryMove(S[rhs].data_)
        S1 == [S EXCEPT ![rhs].data_ = mv.other]
        sw == RawMemorySwap(S1[this].data_, mv.obj)
        S2 == [S1 EXCEPT ![this].data_ = sw.a]
    IN [S |-> S2, w |-> Deallocate(w, sw.b.buffer_)]

\* std::swap(a.data_, b.data_): RawMemory tmp(std::move(a)); a = std::move(b);
\* b = std::move(tmp); ~tmp.
StdSwapData(S, w, a, b) ==
    LET mv == RawMemoryMove(S[a].data_)
        S1 == [S EXCEPT ![a].data_ = mv.other, ![TmpRaw].data_ = mv.obj]
        r1 == RawMemoryMoveAssign(S1, w, a, b)
        r2 == RawMemoryMoveAssign(r1.S, r1.w, b, TmpRaw)
    IN [S |-> [r2.S EXCEPT ![TmpRaw].data_ = EmptyRaw],
        w |-> Deallocate(r2.w, r2.S[TmpRaw].data_.buffer_)]

----------------------------------------------------------------------------
\* Elements in raw memory.  Indices are 0-based as in the code; slots[i + 1]
\* is the slot at address buffer_ + i.

Slots(w, p) == IF p = Null THEN <<>> ELSE w.heap[p].slots

\* The n slots of region p starting at index first.
ReadRange(w, p, first, n) == [j \in 1..n |-> w.heap[p].slots[first + j]]

\* Placement-new of the objects vals at p + first ..; an object that was
\* live there is lost.
ConstructRange(w, p, first, vals) ==
    IF Len(vals) = 0 THEN w
    ELSE LET old == w.heap[p].slots
         IN [w EXCEPT !.heap[p].slots =
                         [j \in DOMAIN old |->
                            IF j > first /\ j <= first + Len(vals) THEN vals[j - first] ELSE old[j]],
                      !.lost = @ \/ (\E j \in (first + 1)..(first + Len(vals)) : old[j] # Raw)]

\* Overwrite the n slots from first with val: Raw for std::destroy_n, Moved
\* for the source of a move.
MarkRange(w, p, first, n, val) ==
    IF n = 0 THEN w
    ELSE [w EXCEPT !.heap[p].slots =
                      [j \in DOMAIN @ |-> IF j > first /\ j <= first + n THEN val ELSE @[j]]]

\* A destroy_n that destroys nothing.
DestroyN_Nothing(w, p, first, n) == w

\* std::destroy_n(p + first, n).
DestroyN(w, p, first, n) == MarkRange(w, p, first, n, Raw)

\* An element assignment that assigns nothing.
AssignRange_Skips(w, p, first, vals) == w

\* Assignment to live objects: data_[first + j] = vals[j].
AssignRange(w, p, first, vals) ==
    IF Len(vals) = 0 THEN w
    ELSE [w EXCEPT !.heap[p].slots =
                      [j \in DOMAIN @ |->
                         IF j > first /\ j <= first + Len(vals) THEN vals[j - first] ELSE @[j]]]

\* std::uninitialized_copy_n(src + sf, n, dst + df); when the k-th copy
\* constructor throws (1 <= k <= n) the k - 1 copies made are destroyed.
UninitCopyN(w, src, sf, n, dst, df, k) ==
    IF k >= 1 /\ k <= n
    THEN LET w1 == ConstructRange(w, dst, df, ReadRange(w, src, sf, k - 1))
         IN [w |-> DestroyN(w1, dst, df, k - 1), ok |-> FALSE]
    ELSE [w |-> ConstructRange(w, dst, df, ReadRange(w, src, sf, n)), ok |-> TRUE]

\* std::uninitialized_move_n(src + sf, n, dst + df) for a non-throwing move.
UninitMoveN(w, src, sf, n, dst, df) ==
    IF n = 0 THEN w
    ELSE LET w1 == ConstructRange(w, dst, df, ReadRange(w, src, sf, n))
         IN MarkRange(w1, src, sf, n, Moved)

\* std::uninitialized_value_construct_n(p + first, n); when the k-th
\* constructor throws the k - 1 objects made are destroyed.
UninitValueConstructN(w, p, first, n, k) ==
    IF k >= 1 /\ k <= n
    THEN LET w1 == ConstructRange(w, p, first, [j \in 1..(k - 1) |-> DefaultValue])
         IN [w |-> DestroyN(w1, p, first, k - 1), ok |-> FALSE]
    ELSE [w |-> ConstructRange(w, p, first, [j \in 1..n |-> DefaultValue]), ok |-> TRUE]

----------------------------------------------------------------------------
\* Vector: the private helper and the parts of operations other operations call.

\* The store of objects an operation works on: the program's Vectors and the
\* operation's temporaries.
Store(vc) == [o \in Objs |-> IF o \in Vecs THEN vc[o] ELSE NoVector]
Restrict(S) == [v \in Vecs |-> S[v]]

\* Size(), Capacity(), and the live range [begin(), end()).
Size(v) == vec[v].size_
Capacity(v) == vec[v].data_.capacity_
Contents(v) ==
    IF vec[v].size_ = 0 THEN <<>>
    ELSE [i \in 1..vec[v].size_ |-> heap[vec[v].data_.buffer_].slots[i]]

\* ElementsMigration that always moves: when the k-th move constructor throws,
\* the k - 1 elements moved so far are left moved-from in the old buffer.
ElementsMigration_AlwaysMove(w, from, to, n, k) ==
    IF k >= 1 /\ k <= n
    THEN [w |-> DestroyN(UninitMoveN(w, from.buffer_, 0, k - 1, to.buffer_, 0),
                         to.buffer_, 0, k - 1),
          from |-> from, to |-> to, ok |-> FALSE]
    ELSE LET sw == RawMemorySwap(from, to)
         IN [w |-> DestroyN(UninitMoveN(w, from.buffer_, 0, n, to.buffer_, 0),
                            from.buffer_, 0, n),
             from |-> sw.a, to |-> sw.b, ok |-> TRUE]

\* Vector::ElementsMigration(from, to, n); k is the copy that throws (0: none).
ElementsMigration(w, from, to, n, k) ==
    LET rel == IF kind = "move"
               THEN [w |-> UninitMoveN(w, from.buffer_, 0, n, to.buffer_, 0), ok |-> TRUE]
               ELSE UninitCopyN(w, from.buffer_, 0, n, to.buffer_, 0, k)
    IN IF ~rel.ok THEN [w |-> rel.w, from |-> from, to |-> to, ok |-> FALSE]
       ELSE LET sw == RawMemorySwap(from, to)
            IN [w |-> DestroyN(rel.w, from.buffer_, 0, n),
                from |-> sw.a, to |-> sw.b, ok |-> TRUE]

\* A copy constructor that copies the members: the new Vector holds the
\* buffer of the other.
CopyConstruct_Shallow(S, w, this, other, f) ==
    IF f # NoFail THEN [S |-> S, w |-> w, ok |-> FALSE]
    ELSE [S |-> [S EXCEPT ![this] = [alive |-> TRUE, data_ |-> S[other].data_,
                                     size_ |-> S[other].size_]],
          w |-> w, ok |-> TRUE]

\* Vector(const Vector& other), building object `this` of the store from
\* object `other`; f is the failure.  When it fails the object is not built
\* and its data_ member is destroyed.
CopyConstruct(S, w, this, other, f) ==
    LET n == S[other].size_ IN
    IF f = AllocFail THEN [S |-> S, w |-> w, ok |-> FALSE]
    ELSE LET a == Allocate(w, n)
             cp == UninitCopyN(a.w, S[other].data_.buffer_, 0, n, a.p, 0,
                               IF f.at = "copy" THEN f.k ELSE 0)
         IN IF cp.ok
            THEN [S |-> [S EXCEPT ![this] = [alive |-> TRUE,
                                             data_ |-> [buffer_ |-> a.p, capacity_ |-> n],
                                             size_ |-> n]],
                  w |-> cp.w, ok |-> TRUE]
            ELSE [S |-> S, w |-> Deallocate(cp.w, a.p), ok |-> FALSE]

\* ~Vector(): std::destroy_n(data_.GetAddress(), size_); then ~RawMemory.
Destroy(S, w, this) ==
    LET w1 == DestroyN(w, S[this].data_.buffer_, 0, S[this].size_)
    IN [S |-> [S EXCEPT ![this] = NoVector],
        w |-> Deallocate(w1, S[this].data_.buffer_)]

\* Vector::Swap without line 220: the sizes stay where they were.
VectorSwap_DataOnly(S, w, this, other) ==
    LET r == StdSwapData(S, w, this, other)
    IN [S |-> r.S, w |-> r.w]

\* Vector::Swap(other): std::swap(data_, other.data_); std::swap(size_, other.size_).
VectorSwap(S, w, this, other) ==
    LET r == StdSwapData(S, w, this, other)
    IN [S |-> [r.S EXCEPT ![this].size_ = r.S[other].size_,
                          ![other].size_ = r.S[this].size_],
        w |-> r.w]

\* The address operator new returns is unspecified and no operation reads
\* it, so states that differ only in the names of the regions are the same
\* program state: after every operation the regions are renamed so that the
\* region of Vector v is region v (Commit skips the renaming that would
\* change nothing).
Renaming(S) ==
    LET owner == [v \in Vecs |-> S[v].data_.buffer_]
        named == {v \in Vecs : owner[v] # Null}
        from == Regions \ {owner[v] : v \in named}
        to == Regions \ named
        Rank(r, R) == Cardinality({q \in R : q < r})
    IN IF \E v, u \in named : v # u /\ owner[v] = owner[u] THEN [r \in Regions |-> r]
       ELSE [r \in Regions |->
               IF r \in from THEN CHOOSE t \in to : Rank(t, to) = Rank(r, from)
               ELSE CHOOSE v \in named : owner[v] = r]

\* The end of an operation: the new Vectors and heap, and the record of what
\* the operation was and did: its name, the Vector its argument refers to
\* (the source of a move construction or move assignment, the Vector itself
\* in PushBack and Insert of one of its own elements), where it failed,
\* whether it took the reallocating path, whether it lost a live element or
\* released a region twice, and the index it returned.
Commit(S, w, op, u, f, realloc, ret) ==
    \E S0 \in {Restrict(S)} :
      \E pi \in {IF \A v \in Vecs : S0[v].data_.buffer_ \in {Null, v}
                  THEN [r \in Regions |-> r]
                  ELSE Renaming(S0)} :
       /\ vec' = [v \in Vecs |->
                    IF S0[v].data_.buffer_ = Null THEN S0[v]
                    ELSE [S0[v] EXCEPT !.data_.buffer_ = pi[S0[v].data_.buffer_]]]
       /\ \E w0 \in {w} :
            /\ heap' = [r \in Regions |-> w0.heap[CHOOSE q \in Regions : pi[q] = r]]
            /\ last' = [op |-> op, u |-> u, fail |-> f.at, realloc |-> realloc,
                        lost |-> w0.lost, dbl |-> w0.dbl,
                        ret |-> IF f = NoFail THEN ret ELSE 0]
       /\ UNCHANGED kind

----------------------------------------------------------------------------
\* Construction and destruction.

Init ==
    /\ kind \in Kinds
    /\ vec = [v \in Vecs |-> NoVector]
    /\ heap = [r \in Regions |-> [alloc |-> FALSE, slots |-> <<>>]]
    /\ last = [op |-> "init", u |-> 0, fail |-> "none", realloc |-> FALSE,
               lost |-> FALSE, dbl |-> FALSE, ret |-> 0]

\* Vector() = default.
DefaultCtor(v) ==
    /\ ~vec[v].alive
    /\ Commit([Store(vec) EXCEPT ![v] = EmptyVector], World(heap),
              "Vector()", 0, NoFail, FALSE, 0)

\* explicit Vector(size_t size).
SizeCtor(v, n, f) ==
    /\ ~vec[v].alive
    /\ HasFree
    /\ \/ f = NoFail
       \/ f = AllocFail /\ n > 0
       \/ f.at = "elem" /\ f.k <= n
    /\ LET S == Store(vec)
           w == World(heap)
       IN IF f = AllocFail THEN Commit(S, w, "Vector(n)", 0, f, FALSE, 0)
          ELSE LET a == Allocate(w, n)
                   vc == UninitValueConstructN(a.w, a.p, 0, n, f.k)
               IN IF vc.ok
                  THEN Commit([S EXCEPT ![v] = [alive |-> TRUE,
                                                data_ |-> [buffer_ |-> a.p, capacity_ |-> n],
                                                size_ |-> n]],
                              vc.w, "Vector(n)", 0, f, FALSE, 0)
                  ELSE Commit(S, Deallocate(vc.w, a.p), "Vector(n)", 0, f, FALSE, 0)

\* Vector(const Vector& other).
CopyCtor(v, u, f) ==
    /\ ~vec[v].alive /\ vec[u].alive
    /\ HasFree
    /\ \/ f = NoFail
       \/ f = AllocFail /\ vec[u].size_ > 0
       \/ f.at = "copy" /\ f.k <= vec[u].size_
    /\ LET r == CopyConstruct(Store(vec), World(heap), v, u, f)
       IN Commit(r.S, r.w, "Vector(const&)", 0, f, FALSE, 0)

\* Vector(Vector&& other): this->Swap(other) on a default-initialised object.
MoveCtor(v, u) ==
    /\ ~vec[v].alive /\ vec[u].alive
    /\ LET r == VectorSwap([Store(vec) EXCEPT ![v] = EmptyVector], World(heap), v, u)
       IN Commit(r.S, r.w, "Vector(&&)", u, NoFail, FALSE, 0)

\* ~Vector().
Dtor(v) ==
    /\ vec[v].alive
    /\ LET r == Destroy(Store(vec), World(heap), v)
       IN Commit(r.S, r.w, "~Vector", 0, NoFail, FALSE, 0)

----------------------------------------------------------------------------
\* Assignment and Swap.

\* Copy assignment that always copies and swaps.
ExceedsCapacity_Always(n, capacity) == TRUE

\* The test of line 175: rhs.size_ > data_.Capacity(), copy and swap.
ExceedsCapacity(n, capacity) == n > capacity

\* An assignment loop that undoes its assignments when one throws.
AssignLoop_RollsBack(w, p, q, n, k, y) ==
    IF k >= 1 /\ k <= n THEN [w |-> w, ok |-> FALSE]
    ELSE [w |-> AssignRange(w, p, 0, ReadRange(w, q, 0, n)), ok |-> TRUE]

\* for (i = 0; i < n; i++) data_[i] = rhs[i], from region q to region p
\* (lines 184-187, 197-200).  When the k-th assignment throws (1 <= k <= n)
\* the k - 1 elements before it stay assigned and the element it was
\* assigning is left with the value y, whatever T::operator= made of it.
AssignLoop(w, p, q, n, k, y) ==
    IF k >= 1 /\ k <= n
    THEN [w |-> AssignRange(AssignRange(w, p, 0, ReadRange(w, q, 0, k - 1)), p, k - 1, <<y>>),
          ok |-> FALSE]
    ELSE [w |-> AssignRange(w, p, 0, ReadRange(w, q, 0, n)), ok |-> TRUE]

\* Vector& operator=(const Vector& rhs).
CopyAssign(v, u, f) ==
    /\ vec[v].alive /\ vec[u].alive
    /\ HasFree
    /\ LET S == Store(vec)
           w == World(heap)
           n == vec[v].size_
           m == vec[u].size_
           p == vec[v].data_.buffer_
           q == vec[u].data_.buffer_
       IN IF v = u THEN f = NoFail /\ Commit(S, w, "operator=(const&)", 0, f, FALSE, 0)
          ELSE IF ExceedsCapacity(m, vec[v].data_.capacity_)
          THEN /\ f = NoFail \/ f = AllocFail \/ (f.at = "copy" /\ f.k <= m)
               /\ LET tmp == CopyConstruct(S, w, TmpVec, u, f)
                  IN IF ~tmp.ok THEN Commit(tmp.S, tmp.w, "operator=(const&)", 0, f, TRUE, 0)
                     ELSE LET sw == VectorSwap(tmp.S, tmp.w, v, TmpVec)
                              d == Destroy(sw.S, sw.w, TmpVec)
                          IN Commit(d.S, d.w, "operator=(const&)", 0, f, TRUE, 0)
          ELSE IF n > m
          THEN /\ f = NoFail \/ (f.at = "assign" /\ f.k <= m)
               /\ \E y \in IF f.at = "assign" THEN Values ELSE {DefaultValue} :
                    LET as == AssignLoop(w, p, q, m, IF f.at = "assign" THEN f.k ELSE 0, y)
                    IN IF ~as.ok THEN Commit(S, as.w, "operator=(const&)", 0, f, FALSE, 0)
                       ELSE Commit([S EXCEPT ![v].size_ = m], DestroyN(as.w, p, m, n - m),
                                   "operator=(const&)", 0, f, FALSE, 0)
          ELSE /\ \/ f = NoFail
                  \/ f.at = "assign" /\ f.k <= n
                  \/ f.at = "copy" /\ f.k <= m - n
               /\ \E y \in IF f.at = "assign" THEN Values ELSE {DefaultValue} :
                    LET as == AssignLoop(w, p, q, n, IF f.at = "assign" THEN f.k ELSE 0, y)
                        cp == UninitCopyN(as.w, q, n, m - n, p, n, IF f.at = "copy" THEN f.k ELSE 0)
                    IN IF ~as.ok THEN Commit(S, as.w, "operator=(const&)", 0, f, FALSE, 0)
                       ELSE Commit([S EXCEPT ![v].size_ = IF cp.ok THEN m ELSE n], cp.w,
                                   "operator=(const&)", 0, f, FALSE, 0)

\* Vector& operator=(Vector&& rhs): data_ = std::move(rhs.data_);
\* size_ = rhs.size_; rhs.size_ = 0.
MoveAssign(v, u) ==
    /\ vec[v].alive /\ vec[u].alive
    /\ LET r == RawMemoryMoveAssign(Store(vec), World(heap), v, u)
           S1 == [r.S EXCEPT ![v].size_ = r.S[u].size_]
           S2 == [S1 EXCEPT ![u].size_ = 0]
       IN Commit(S2, r.w, "operator=(&&)", u, NoFail, FALSE, 0)

\* void Swap(Vector& other).
Swap(v, u) ==
    /\ vec[v].alive /\ vec[u].alive
    /\ LET r == VectorSwap(Store(vec), World(heap), v, u)
       IN Commit(r.S, r.w, "Swap", 0, NoFail, FALSE, 0)

----------------------------------------------------------------------------
\* Reserve and Resize.

\* The body of Reserve past its early return: RawMemory<T> new_data(new_capacity);
\* ElementsMigration(data_, new_data, size_); ~new_data.
Reallocate(S, w, v, n, f) ==
    IF f = AllocFail THEN [S |-> S, w |-> w, ok |-> FALSE]
    ELSE LET a == Allocate(w, n)
             mig == ElementsMigration(a.w, S[v].data_, [buffer_ |-> a.p, capacity_ |-> n],
                                      S[v].size_, IF f.at = "copy" THEN f.k ELSE 0)
         IN [S |-> [S EXCEPT ![v].data_ = mig.from],
             w |-> Deallocate(mig.w, mig.to.buffer_),
             ok |-> mig.ok]

\* Which failures relocating the n live elements of a Vector can meet.
RelocationFails(f, n) == f = AllocFail \/ (f.at = "copy" /\ kind = "copy" /\ f.k <= n)

\* Reserve with the test of line 246 as new_capacity < Capacity(): a request
\* for the present capacity reallocates.
Reserve_ReallocatesOnEqual(v, n, f) ==
    /\ vec[v].alive
    /\ HasFree
    /\ LET S == Store(vec)
           w == World(heap)
       IN IF n < vec[v].data_.capacity_
          THEN f = NoFail /\ Commit(S, w, "Reserve", 0, f, FALSE, 0)
          ELSE /\ f = NoFail \/ RelocationFails(f, vec[v].size_)
               /\ LET r == Reallocate(S, w, v, n, f)
                  IN Commit(r.S, r.w, "Reserve", 0, f, TRUE, 0)

\* void Reserve(size_t new_capacity).
Reserve(v, n, f) ==
    /\ vec[v].alive
    /\ HasFree
    /\ LET S == Store(vec)
           w == World(heap)
       IN IF n <= vec[v].data_.capacity_
          THEN f = NoFail /\ Commit(S, w, "Reserve", 0, f, FALSE, 0)
          ELSE /\ f = NoFail \/ RelocationFails(f, vec[v].size_)
               /\ LET r == Reallocate(S, w, v, n, f)
                  IN Commit(r.S, r.w, "Reserve", 0, f, TRUE, 0)

\* void Resize(size_t new_size).
Resize(v, n, f) ==
    /\ vec[v].alive
    /\ HasFree
    /\ LET S == Store(vec)
           w == World(heap)
           sz == vec[v].size_
           grows == n > vec[v].data_.capacity_
       IN IF n > sz
          THEN /\ \/ f = NoFail
                  \/ grows /\ RelocationFails(f, sz)
                  \/ f.at = "elem" /\ f.k <= n - sz
               /\ LET r == IF grows THEN Reallocate(S, w, v, n, f)
                                    ELSE [S |-> S, w |-> w, ok |-> TRUE]
                  IN IF ~r.ok THEN Commit(r.S, r.w, "Resize", 0, f, grows, 0)
                     ELSE LET vc == UninitValueConstructN(r.w, r.S[v].data_.buffer_, sz, n - sz,
                                                          IF f.at = "elem" THEN f.k ELSE 0)
                          IN Commit([r.S EXCEPT ![v].size_ = IF vc.ok THEN n ELSE sz], vc.w,
                                    "Resize", 0, f, grows, 0)
          ELSE IF n < sz
          THEN /\ f = NoFail
               /\ Commit([S EXCEPT ![v].size_ = n],
                         DestroyN(w, vec[v].data_.buffer_, n, sz - n), "Resize", 0, f, FALSE, 0)
          ELSE f = NoFail /\ Commit(S, w, "Resize", 0, f, FALSE, 0)

----------------------------------------------------------------------------
\* PushBack, EmplaceBack, Insert, Emplace.

\* Growth by one slot instead of doubling.
GrowCapacity_PlusOne(size) == size + 1

\* The capacity of the buffer a full Vector of `size` elements grows into.
GrowCapacity(size) == IF size = 0 THEN 1 ELSE size * 2

\* The argument of PushBack and Insert is a value, or a reference to the
\* element at index j of the Vector itself (v.PushBack(v[j])), which is read
\* when the new element is constructed from it.
Ref(j) == Moved - 1 - j
IsRef(x) == x < Moved
RefIndex(x) == Moved - 1 - x
Args(n) == Values \cup {Ref(j) : j \in 0..(n - 1)}

\* The value T(args) constructs when the argument x is read in world w, the
\* elements being in region p.
ArgValue(w, p, x) == IF IsRef(x) THEN w.heap[p].slots[RefIndex(x) + 1] ELSE x

\* T& EmplaceBack(Args&&... args) on object v of the store; x is the
\* argument.
DoEmplaceBack(S, w, v, x, f) ==
    LET sz == S[v].size_
        cap == S[v].data_.capacity_
    IN IF sz = cap
       THEN IF f = AllocFail THEN [S |-> S, w |-> w, ok |-> FALSE]
            ELSE LET a == Allocate(w, GrowCapacity(sz))
                     new_data == [buffer_ |-> a.p, capacity_ |-> GrowCapacity(sz)]
                 IN IF f = ArgFail THEN [S |-> S, w |-> Deallocate(a.w, a.p), ok |-> FALSE]
                    ELSE LET w1 == ConstructRange(a.w, a.p, sz,
                                                  <<ArgValue(a.w, S[v].data_.buffer_, x)>>)
                             mig == ElementsMigration(w1, S[v].data_, new_data, sz,
                                                      IF f.at = "copy" THEN f.k ELSE 0)
                         IN [S |-> [S EXCEPT ![v].data_ = mig.from,
                                             ![v].size_ = IF mig.ok THEN sz + 1 ELSE sz],
                             w |-> Deallocate(mig.w, mig.to.buffer_),
                             ok |-> mig.ok]
       ELSE IF f = ArgFail THEN [S |-> S, w |-> w, ok |-> FALSE]
            ELSE [S |-> [S EXCEPT ![v].size_ = sz + 1],
                  w |-> ConstructRange(w, S[v].data_.buffer_, sz,
                                       <<ArgValue(w, S[v].data_.buffer_, x)>>),
                  ok |-> TRUE]

\* Which failures constructing one element from arguments, in new storage
\* when the Vector is full, can meet.
InsertionFails(f, full, n) == f = ArgFail \/ (full /\ RelocationFails(f, n))

\* PushBack(T&), PushBack(T&&) and EmplaceBack(args...).
EmplaceBack(v, x, f) ==
    /\ vec[v].alive
    /\ HasFree
    /\ IsRef(x) => RefIndex(x) < vec[v].size_
    /\ LET full == vec[v].size_ = vec[v].data_.capacity_
       IN /\ f = NoFail \/ InsertionFails(f, full, vec[v].size_)
          /\ LET r == DoEmplaceBack(Store(vec), World(heap), v, x, f)
             IN Commit(r.S, r.w, "EmplaceBack", IF IsRef(x) THEN v ELSE 0, f, full,
                       r.S[v].size_ - 1)

\* std::move(first, last, d_first) and std::move_backward on the n live
\* objects from index first, to the n slots from index dfirst of the same
\* region: the targets are assigned, the sources that are no target are
\* left moved-from.
MoveRange(w, p, first, n, dfirst) ==
    LET vals == ReadRange(w, p, first, n)
    IN AssignRange(MarkRange(w, p, first, n, Moved), p, dfirst, vals)

\* Relocation of the n elements from index sf of region src to index df of
\* region dst, by std::uninitialized_move_n or std::uninitialized_copy_n
\* as the element type demands (lines 324-333).
Relocate(w, src, sf, n, dst, df, k) ==
    IF kind = "move" THEN [w |-> UninitMoveN(w, src, sf, n, dst, df), ok |-> TRUE]
    ELSE UninitCopyN(w, src, sf, n, dst, df, k)

\* The in-place branch with the shifted range starting one element late.
InsertInPlace_ShiftsLate(w, p, position, sz, x) ==
    LET temporary == ArgValue(w, p, x)
        w1 == ConstructRange(w, p, sz, ReadRange(w, p, sz - 1, 1))
        w2 == MarkRange(w1, p, sz - 1, 1, Moved)
        w3 == MoveRange(w2, p, position + 1, sz - 2 - position, position + 2)
    IN AssignRange(w3, p, position, <<temporary>>)

\* The in-place branch without the temporary of line 340: the element is
\* assigned from the argument after the shift.
InsertInPlace_NoTemporary(w, p, position, sz, x) ==
    LET w1 == ConstructRange(w, p, sz, ReadRange(w, p, sz - 1, 1))
        w2 == MarkRange(w1, p, sz - 1, 1, Moved)
        w3 == MoveRange(w2, p, position, sz - 1 - position, position + 1)
    IN AssignRange(w3, p, position, <<ArgValue(w3, p, x)>>)

\* The in-place branch of Emplace (lines 340-344): T temporary(args); the
\* last element moved into the slot at end(); the shift; the assignment.
InsertInPlace(w, p, position, sz, x) ==
    LET temporary == ArgValue(w, p, x)
        w1 == ConstructRange(w, p, sz, ReadRange(w, p, sz - 1, 1))
        w2 == MarkRange(w1, p, sz - 1, 1, Moved)
        w3 == MoveRange(w2, p, position, sz - 1 - position, position + 1)
    IN AssignRange(w3, p, position, <<temporary>>)

\* iterator Emplace(const_iterator pos, Args&&... args), Insert(pos, const T&),
\* Insert(pos, T&&); position is pos - begin().
Emplace(v, position, x, f) ==
    /\ vec[v].alive
    /\ HasFree
    /\ position <= vec[v].size_
    /\ IsRef(x) => RefIndex(x) < vec[v].size_
    /\ LET S == Store(vec)
           w == World(heap)
           sz == vec[v].size_
           full == sz = vec[v].data_.capacity_
           old == vec[v].data_
           u == IF IsRef(x) THEN v ELSE 0
       IN /\ f = NoFail \/ InsertionFails(f, full, sz)
          /\ IF position = sz
             THEN LET r == DoEmplaceBack(S, w, v, x, f)
                  IN Commit(r.S, r.w, "Emplace", u, f, full, r.S[v].size_ - 1)
             ELSE IF full
             THEN IF f = AllocFail THEN Commit(S, w, "Emplace", u, f, TRUE, position)
                  ELSE LET a == Allocate(w, GrowCapacity(sz))
                       IN IF f = ArgFail
                          THEN Commit(S, Deallocate(a.w, a.p), "Emplace", u, f, TRUE, position)
                          ELSE LET k == IF f.at = "copy" THEN f.k ELSE 0
                                   w1 == ConstructRange(a.w, a.p, position,
                                                        <<ArgValue(a.w, old.buffer_, x)>>)
                                   r1 == Relocate(w1, old.buffer_, 0, position, a.p, 0, k)
                                   r2 == Relocate(r1.w, old.buffer_, position, sz - position,
                                                  a.p, position + 1, k - position)
                               IN IF ~r1.ok
                                  THEN Commit(S, Deallocate(r1.w, a.p), "Emplace", u, f, TRUE, position)
                                  ELSE IF ~r2.ok
                                  THEN Commit(S, Deallocate(r2.w, a.p), "Emplace", u, f, TRUE, position)
                                  ELSE LET w2 == DestroyN(r2.w, old.buffer_, 0, sz)
                                           sw == RawMemorySwap(old, [buffer_ |-> a.p,
                                                                     capacity_ |-> GrowCapacity(sz)])
                                       IN Commit([S EXCEPT ![v].data_ = sw.a, ![v].size_ = sz + 1],
                                                 Deallocate(w2, sw.b.buffer_),
                                                 "Emplace", u, f, TRUE, position)
             ELSE IF f = ArgFail THEN Commit(S, w, "Emplace", u, f, FALSE, position)
                  ELSE Commit([S EXCEPT ![v].size_ = sz + 1],
                              InsertInPlace(w, old.buffer_, position, sz, x),
                              "Emplace", u, f, FALSE, position)

----------------------------------------------------------------------------
\* Erase and PopBack.

\* Erase without the std::move of line 353: the last element is destroyed
\* and the element at pos stays.
Erase_NoShift(v, position) ==
    /\ vec[v].alive
    /\ position < vec[v].size_
    /\ LET sz == vec[v].size_
       IN Commit([Store(vec) EXCEPT ![v].size_ = sz - 1],
                 DestroyN(World(heap), vec[v].data_.buffer_, sz - 1, 1),
                 "Erase", 0, NoFail, FALSE, position)

\* iterator Erase(const_iterator pos) noexcept; position is pos - begin().
Erase(v, position) ==
    /\ vec[v].alive
    /\ position < vec[v].size_
    /\ LET sz == vec[v].size_
           p == vec[v].data_.buffer_
           w1 == MoveRange(World(heap), p, position + 1, sz - position - 1, position)
           w2 == DestroyN(w1, p, sz - 1, 1)
       IN Commit([Store(vec) EXCEPT ![v].size_ = sz - 1], w2, "Erase", 0, NoFail, FALSE, position)

\* The body of PopBack on object v of the store:
\* std::destroy_n(end() - 1, 1); --size_.
DoPopBack(S, w, v) ==
    [S |-> [S EXCEPT ![v].size_ = S[v].size_ - 1],
     w |-> DestroyN(w, S[v].data_.buffer_, S[v].size_ - 1, 1)]

\* void PopBack() noexcept.
PopBack(v) ==
    /\ vec[v].alive
    /\ vec[v].size_ > 0
    /\ LET r == DoPopBack(Store(vec), World(heap), v)
       IN Commit(r.S, r.w, "PopBack", 0, NoFail, FALSE, 0)

----------------------------------------------------------------------------
\* Element access.

\* T& operator[](size_t index) noexcept, and an assignment of x through the
\* reference it returns: v[index] = x.
ElementWrite(v, index, x) ==
    /\ vec[v].alive
    /\ index < vec[v].size_
    /\ Commit(Store(vec), AssignRange(World(heap), vec[v].data_.buffer_, index, <<x>>),
              "operator[]", 0, NoFail, FALSE, 0)

----------------------------------------------------------------------------
\* The model grows a full Vector only while the new capacity stays within b.
Fits(v, b) == vec[v].size_ = vec[v].data_.capacity_ => GrowCapacity(vec[v].size_) <= b
EmplaceBackWithin(v, x, f, b) == Fits(v, b) /\ EmplaceBack(v, x, f)
EmplaceWithin(v, position, x, f, b) == Fits(v, b) /\ Emplace(v, position, x, f)

\* A program with two Vectors: every operation, on either Vector, with the
\* other Vector as the argument (NextOne has the operations of a Vector on
\* itself).
Next ==
    \/ \E v \in Vecs : DefaultCtor(v)
    \/ \E v \in Vecs, n \in 0..MaxPair, f \in Failures : SizeCtor(v, n, f)
    \/ \E v \in Vecs : \E u \in Vecs \ {v}, f \in Failures : CopyCtor(v, u, f)
    \/ \E v \in Vecs : \E u \in Vecs \ {v} : MoveCtor(v, u)
    \/ \E v \in Vecs : Dtor(v)
    \/ \E v \in Vecs : \E u \in Vecs \ {v}, f \in Failures : CopyAssign(v, u, f)
    \/ \E v \in Vecs : \E u \in Vecs \ {v} : MoveAssign(v, u)
    \/ \E v \in Vecs : \E u \in Vecs \ {v} : Swap(v, u)
    \/ \E v \in Vecs, n \in 0..MaxPair, f \in Failures : Reserve(v, n, f)
    \/ \E v \in Vecs, n \in 0..MaxPair, f \in Failures : Resize(v, n, f)
    \/ \E v \in Vecs, x \in Values, f \in Failures : EmplaceBackWithin(v, x, f, MaxPair)
    \/ \E v \in Vecs, i \in 0..MaxPair, x \in Values, f \in Failures :
          EmplaceWithin(v, i, x, f, MaxPair)
    \/ \E v \in Vecs, i \in 0..MaxPair : Erase(v, i)
    \/ \E v \in Vecs : PopBack(v)
    \/ \E v \in Vecs, i \in 0..MaxPair, x \in Values : ElementWrite(v, i, x)

Spec == Init /\ [][Next]_vars

\* A program with one Vector, up to the larger capacity MaxCap: every
\* operation that needs no second Vector, assignment and Swap with itself.
NextOne ==
    \/ DefaultCtor(1)
    \/ \E n \in 0..MaxCap, f \in Failures : SizeCtor(1, n, f)
    \/ Dtor(1)
    \/ CopyAssign(1, 1, NoFail)
    \/ MoveAssign(1, 1)
    \/ Swap(1, 1)
    \/ \E n \in 0..MaxCap, f \in Failures : Reserve(1, n, f)
    \/ \E n \in 0..MaxCap, f \in Failures : Resize(1, n, f)
    \/ \E x \in Values, f \in Failures : EmplaceBackWithin(1, x, f, MaxCap)
    \/ \E i \in 0..MaxCap, x \in Values, f \in Failures : EmplaceWithin(1, i, x, f, MaxCap)
    \/ \E i \in 0..MaxCap : Erase(1, i)
    \/ PopBack(1)
    \/ \E i \in 0..MaxCap, x \in Values : ElementWrite(1, i, x)

SpecOne == Init /\ [][NextOne]_vars

\* A program with one Vector whose PushBack and Insert take values or
\* references to the Vector's own elements: construction, destruction,
\* Reserve, PushBack, Insert, Erase and PopBack, up to capacity MaxCap.
NextSelf ==
    \/ DefaultCtor(1)
    \/ \E n \in 0..MaxCap, f \in Failures : SizeCtor(1, n, f)
    \/ Dtor(1)
    \/ \E n \in 0..MaxCap, f \in Failures : Reserve(1, n, f)
    \/ \E x \in Args(MaxCap), f \in Failures : EmplaceBackWithin(1, x, f, MaxCap)
    \/ \E i \in 0..MaxCap, x \in Args(MaxCap), f \in Failures :
          EmplaceWithin(1, i, x, f, MaxCap)
    \/ \E i \in 0..MaxCap : Erase(1, i)
    \/ PopBack(1)

SpecSelf == Init /\ [][NextSelf]_vars
----------------------------------------------------------------------------
\* The claims.

\* Exactly the slots [0, size) of the buffer of Vector v hold a live element.
LiveLayout(v) ==
    LET sl == IF vec[v].data_.buffer_ = Null THEN <<>> ELSE heap[vec[v].data_.buffer_].slots
    IN /\ Len(sl) = vec[v].data_.capacity_
       /\ \A i \in 1..Len(sl) : (sl[i] # Raw) <=> (i <= vec[v].size_)

\* C1: after every completed public operation exactly the slots with index in
\* [0, size) hold live elements and the slots in [size, capacity) hold none.
\* The move assignment of a Vector to itself (lines 209-215) breaks it.
C1_LiveSlotsAreTheFirstSize == \A v \in Vecs : vec[v].alive => LiveLayout(v)

\* C2: in a sequence of non-failing operations no buffer is released while it
\* holds a live element, and no live element's storage is reused: every
\* element is destroyed before its storage goes.  Move assignment to a
\* non-empty Vector (lines 209-215) breaks it.
C2_NoLiveElementLost == last.fail = "none" => ~last.lost

\* The operations of C3 that reallocate.
Reallocating == {"Reserve", "EmplaceBack", "Emplace"}

\* C3: for an element type relocated by copy, when an operation that
\* reallocates (Reserve beyond the capacity, EmplaceBack or Emplace on a full
\* Vector) fails, the size, the capacity and every element value of the Vector
\* are what they were before the operation.
C3_ReallocationIsStrong ==
    [][(kind = "copy" /\ last'.op \in Reallocating /\ last'.realloc /\ last'.fail # "none")
         => /\ Size(1)' = Size(1)
            /\ Capacity(1)' = Capacity(1)
            /\ Contents(1)' = Contents(1)]_vars

\* C3 happens: an Emplace into a full Vector of at least two elements failed
\* while copying an element.
C3_Witness ==
    /\ kind = "copy" /\ last.op = "Emplace" /\ last.realloc /\ last.fail = "copy"
    /\ Size(1) >= 2 /\ Size(1) = Capacity(1)

\* C4: on every construction path, when an element construction fails, every
\* element already constructed in the new storage is destroyed before the
\* new buffer is released.  EmplaceBack and Emplace on a full Vector
\* (lines 287-289, 322-333) release the new buffer with the new element live.
C4_FailureDestroysWhatWasBuilt ==
    (last.fail \in {"arg", "copy", "elem"}
       /\ last.op \in {"Vector(n)", "Vector(const&)", "operator=(const&)",
                       "Resize", "Reserve", "EmplaceBack", "Emplace"})
      => ~last.lost

\* C5: when Resize(n), n > size, fails in the value construction of a new
\* element, the size, the capacity and the element values of the Vector are
\* what they were before.  With n > capacity the Reserve done first (line 260)
\* has already changed the capacity.
C5_FailedResizeChangesNothing ==
    [][(last'.op = "Resize" /\ last'.fail = "elem")
         => /\ Size(1)' = Size(1)
            /\ Capacity(1)' = Capacity(1)
            /\ Contents(1)' = Contents(1)]_vars

\* The step moves from Vector v: v is the argument of a move construction or
\* of a move assignment.
MovesFrom(v) == last'.op \in {"Vector(&&)", "operator=(&&)"} /\ last'.u = v

\* C6 as stated: for every Vector and every operation applied to it other than
\* being the source of a move, the capacity does not decrease.  The target of
\* a move assignment and both sides of a Swap take the other's capacity.
C6_CapacityNeverDecreases ==
    [][\A v \in Vecs : (vec[v].alive /\ vec'[v].alive /\ ~MovesFrom(v))
                          => Capacity(v)' >= Capacity(v)]_vars

\* C6 as amended: for every Vector and every operation applied to it other
\* than Swap, move assignment (as the source or the target) and being the
\* source of a move construction, the capacity does not decrease; this
\* includes being the target of copy assignment.
C6_CapacityMonotonic ==
    [][\A v \in Vecs : (vec[v].alive /\ vec'[v].alive /\ ~MovesFrom(v)
                          /\ last'.op \notin {"operator=(&&)", "Swap"})
                          => Capacity(v)' >= Capacity(v)]_vars

\* C6 happens: a copy assignment left its target with spare capacity.
C6_Witness ==
    /\ last.op = "operator=(const&)" /\ last.fail = "none" /\ ~last.realloc
    /\ \E v \in Vecs : \E u \in Vecs \ {v} :
          /\ vec[v].alive /\ vec[u].alive
          /\ Size(v) = Size(u) /\ Size(v) < Capacity(v) /\ Capacity(u) < Capacity(v)

\* C7: no two Vectors own the same region, and every region allocated is
\* released exactly once: none is released twice, every region a Vector
\* holds is allocated and of the Vector's capacity, and every allocated
\* region is held by a Vector, whose destructor will release it.
C7_ExclusiveOwnership ==
    /\ ~last.dbl
    /\ \A v \in Vecs : \A u \in Vecs \ {v} :
          vec[v].data_.buffer_ # Null => vec[v].data_.buffer_ # vec[u].data_.buffer_
    /\ \A v \in Vecs :
          /\ ~vec[v].alive => vec[v].data_.buffer_ = Null
          /\ vec[v].data_.buffer_ = Null => vec[v].data_.capacity_ = 0
          /\ vec[v].data_.buffer_ # Null =>
                /\ heap[vec[v].data_.buffer_].alloc
                /\ Len(heap[vec[v].data_.buffer_].slots) = vec[v].data_.capacity_
    /\ \A r \in Regions : heap[r].alloc => \E v \in Vecs : vec[v].data_.buffer_ = r

\* C7 happens: a Swap exchanged the regions of two Vectors of different
\* capacities.
C7_Witness ==
    /\ last.op = "Swap"
    /\ vec[1].data_.buffer_ # Null /\ vec[2].data_.buffer_ # Null
    /\ Capacity(1) # Capacity(2)

\* C8: in every reachable state, the states after a failed operation
\* included, size <= capacity.
C8_SizeWithinCapacity == \A v \in Vecs : vec[v].size_ <= vec[v].data_.capacity_

\* C8 happens: an operation failed in an element construction and left a
\* Vector that holds elements.
C8_Witness ==
    /\ last.fail \in {"arg", "copy", "elem"}
    /\ \E v \in Vecs : vec[v].alive /\ Size(v) > 0

\* C9: EmplaceBack on a full Vector doubles the capacity (1 from 0), on any
\* other leaves it; the size grows by 1, the prior elements keep value and
\* order and the new value is last; for either relocation strategy.
C9_AppendGrowth ==
    [][(last'.op = "EmplaceBack" /\ last'.fail = "none") =>
       \A x \in Values :
         EmplaceBack(1, x, NoFail)
           => /\ Size(1)' = Size(1) + 1
              /\ Capacity(1)' = IF Size(1) < Capacity(1) THEN Capacity(1)
                                ELSE IF Capacity(1) = 0 THEN 1 ELSE 2 * Capacity(1)
              /\ Contents(1)' = Append(Contents(1), x)]_vars

\* C9 happens: an EmplaceBack took a full Vector of two elements to capacity 4.
C9_Witness ==
    /\ last.op = "EmplaceBack" /\ last.realloc /\ last.fail = "none"
    /\ Size(1) = 3 /\ Capacity(1) = 4

\* s with x inserted before index i (0-based).
InsertAt(s, i, x) == SubSeq(s, 1, i) \o <<x>> \o SubSeq(s, i + 1, Len(s))

\* C10: Insert(pos, x) at index i yields [e0..e(i-1), x, e(i)..] with size + 1
\* and returns i, on the reallocating path (capacity doubled, or set to 1) as
\* on the in-place path; at i = size the result is that of EmplaceBack(x).
C10_InsertAtPosition ==
    [][(last'.op = "Emplace" /\ last'.fail = "none") =>
       \A i \in 0..MaxCap, x \in Values :
         Emplace(1, i, x, NoFail)
           => /\ Size(1)' = Size(1) + 1
              /\ Contents(1)' = InsertAt(Contents(1), i, x)
              /\ last'.ret = i
              /\ Capacity(1)' = IF Size(1) < Capacity(1) THEN Capacity(1)
                                ELSE IF Capacity(1) = 0 THEN 1 ELSE 2 * Capacity(1)
              /\ i = Size(1) => Contents(1)' = Append(Contents(1), x)]_vars

\* C10 happens: an in-place Insert at index 1 of a Vector of three elements
\* put a value between two different ones.
C10_Witness ==
    /\ last.op = "Emplace" /\ ~last.realloc /\ last.fail = "none" /\ last.ret = 1
    /\ Size(1) = 4
    /\ Contents(1)[2] # Contents(1)[3]

\* The number of live elements in the buffer of Vector v.
LiveCount(v) ==
    IF vec[v].data_.buffer_ = Null THEN 0
    ELSE Cardinality({i \in DOMAIN heap[vec[v].data_.buffer_].slots :
                        heap[vec[v].data_.buffer_].slots[i] # Raw})

\* s without its element at index i (0-based).
RemoveAt(s, i) == SubSeq(s, 1, i) \o SubSeq(s, i + 2, Len(s))

\* The live range of object v of store S in world w.
ContentsOf(S, w, v) ==
    IF S[v].size_ = 0 THEN <<>>
    ELSE [i \in 1..S[v].size_ |-> w.heap[S[v].data_.buffer_].slots[i]]

\* C11: Erase(pos) at index i < size yields [e0..e(i-1), e(i+1)..] with
\* size - 1 and the capacity unchanged, destroys exactly one element, leaves
\* the vacated trailing slot without an object and returns i; at i = size - 1
\* the size, capacity and contents are those PopBack leaves.
C11_EraseAtPosition ==
    [][(last'.op = "Erase") =>
       \A i \in 0..MaxCap :
         Erase(1, i)
           => /\ Size(1)' = Size(1) - 1
              /\ Capacity(1)' = Capacity(1)
              /\ Contents(1)' = RemoveAt(Contents(1), i)
              /\ last'.ret = i
              /\ LiveCount(1)' = LiveCount(1) - 1
              /\ heap'[vec'[1].data_.buffer_].slots[Size(1)] = Raw
              /\ ~last'.lost
              /\ i = Size(1) - 1 =>
                    LET r == DoPopBack(Store(vec), World(heap), 1)
                    IN /\ Size(1)' = r.S[1].size_
                       /\ Capacity(1)' = r.S[1].data_.capacity_
                       /\ Contents(1)' = ContentsOf(r.S, r.w, 1)]_vars

\* C11 happens: an Erase at index 1 of a Vector of four elements closed the
\* gap between two different values.
C11_Witness ==
    /\ last.op = "Erase" /\ last.ret = 1
    /\ Size(1) = 3 /\ Capacity(1) = 4
    /\ Contents(1)[1] # Contents(1)[2]

\* C12: Reserve(n) changes neither the size nor an element value.  With
\* n <= capacity it allocates nothing, relocates nothing and leaves the
\* Vector and the heap as they were.  With n > capacity a Reserve that
\* returns leaves capacity n, the old buffer released and the new one the only
\* region allocated; when the live objects of the old buffer were the
\* Vector's elements none of them was lost with it.
C12_ReserveFrame ==
    [][(last'.op = "Reserve") =>
       \A n \in 0..MaxCap, f \in Failures :
         Reserve(1, n, f)
           => /\ Size(1)' = Size(1)
              /\ Contents(1)' = Contents(1)
              /\ n <= Capacity(1) =>
                    /\ ~last'.realloc
                    /\ UNCHANGED <<vec, heap>>
              /\ (n > Capacity(1) /\ f = NoFail) =>
                    /\ last'.realloc
                    /\ Capacity(1)' = n
                    /\ \A r \in Regions : heap'[r].alloc <=> r = vec'[1].data_.buffer_
                    /\ Len(heap'[vec'[1].data_.buffer_].slots) = n
                    /\ LiveLayout(1) => (~last'.lost /\ LiveLayout(1)')]_vars

\* C12 happens: a Reserve relocated two different elements into a buffer of
\* capacity 3.
C12_Witness ==
    /\ last.op = "Reserve" /\ last.realloc /\ last.fail = "none"
    /\ Size(1) = 2 /\ Capacity(1) = 3
    /\ Contents(1)[1] # Contents(1)[2]

\* The number of live objects in the heap.
TotalLive ==
    Cardinality(UNION {{<<r, i>> : i \in {j \in DOMAIN heap[r].slots : heap[r].slots[j] # Raw}} :
                         r \in Regions})

\* C13: after the move construction of a Vector v from u, and after the move
\* assignment of u to a distinct Vector v, v has the size and the element
\* values u had, and u has size 0 and capacity 0; no element is constructed
\* or copied: v holds the very buffer of u, with the objects that were in it,
\* and the heap holds no object more than before.
C13_MoveTransfersOwnership ==
    [][(last'.op \in {"Vector(&&)", "operator=(&&)"}) =>
       \A v \in Vecs : \A u \in Vecs \ {v} :
         (last'.u = u) =>
            /\ Size(v)' = Size(u)
            /\ Contents(v)' = Contents(u)
            /\ Capacity(v)' = Capacity(u)
            /\ Size(u)' = 0
            /\ Capacity(u)' = 0
            /\ vec'[u].data_.buffer_ = Null
            /\ vec[u].data_.buffer_ # Null =>
                  heap'[vec'[v].data_.buffer_].slots = heap[vec[u].data_.buffer_].slots
            /\ TotalLive' <= TotalLive
            /\ last'.fail = "none"]_vars

\* C13 happens: a move assignment gave Vector 1 the two different elements
\* of Vector 2 and left Vector 2 empty.
C13_Witness ==
    /\ last.op = "operator=(&&)" /\ last.u = 2
    /\ vec[1].alive /\ vec[2].alive
    /\ Size(1) = 2 /\ Contents(1)[1] # Contents(1)[2]
    /\ Size(2) = 0 /\ Capacity(2) = 0

\* Vector u and the objects in its buffer are what they were before the step.
Untouched(u) ==
    /\ vec'[u] = vec[u]
    /\ vec[u].data_.buffer_ # Null =>
          heap'[vec'[u].data_.buffer_].slots = heap[vec[u].data_.buffer_].slots

\* The failures that agree with what the step recorded.
Recorded == {f \in Failures : f.at = last'.fail}

\* The step is a mutating operation on Vector v alone: an element write,
\* PushBack, Insert, Erase, PopBack, Resize, Reserve or its destruction,
\* whether it returns or throws. Only the arguments that agree with what
\* the step recorded are tried: an insertion records whether the Vector was
\* full and, when it returns, the position; Erase records the position;
\* Resize and Reserve record whether the new size or capacity is above the
\* capacity.
Mutates(v) ==
    \/ last'.op = "operator[]" /\ \E i \in 0..MaxPair, x \in Values : ElementWrite(v, i, x)
    \/ /\ last'.op = "EmplaceBack"
       /\ last'.realloc = (Size(v) = Capacity(v))
       /\ \E x \in Values, f \in Recorded : EmplaceBack(v, x, f)
    \/ /\ last'.op = "Emplace"
       /\ last'.realloc = (Size(v) = Capacity(v))
       /\ \E i \in {j \in 0..MaxPair : last'.fail # "none" \/ j = last'.ret},
             x \in Values, f \in Recorded : Emplace(v, i, x, f)
    \/ last'.op = "Erase" /\ Erase(v, last'.ret)
    \/ last'.op = "PopBack" /\ PopBack(v)
    \/ /\ last'.op = "Resize"
       /\ \E n \in {m \in 0..MaxPair : last'.realloc = (m > Size(v) /\ m > Capacity(v))},
             f \in Recorded : Resize(v, n, f)
    \/ /\ last'.op = "Reserve"
       /\ \E n \in {m \in 0..MaxPair : last'.realloc = (m > Capacity(v))},
             f \in Recorded : Reserve(v, n, f)
    \/ last'.op = "~Vector" /\ Dtor(v)

\* The step copies Vector u to Vector v, by construction or by assignment;
\* f is where it fails.
Copies(v, u, f) ==
    \/ last'.op = "Vector(const&)" /\ CopyCtor(v, u, f)
    \/ last'.op = "operator=(const&)" /\ CopyAssign(v, u, f)

\* C14: a copy-constructed or copy-assigned Vector has the size and the
\* element values of its source and a buffer of its own, and the copy leaves
\* the source as it was; every mutating operation on one Vector (element
\* write, PushBack, Insert, Erase, PopBack, Resize, Reserve, destruction)
\* leaves the size, the capacity and the element values of the other
\* unchanged, so any later sequence of them does.
C14_DeepCopyIndependence ==
    [][\A v \in Vecs : \A u \in Vecs \ {v} :
         /\ Untouched(u) \/ ~Mutates(v)
         /\ (last'.op \in {"Vector(const&)", "operator=(const&)"}) =>
              \A f \in Recorded :
                Copies(v, u, f)
                  => /\ Untouched(u)
                     /\ f = NoFail =>
                           /\ Size(v)' = Size(u)
                           /\ Contents(v)' = Contents(u)
                           /\ vec'[v].data_.buffer_ = Null
                                \/ vec'[v].data_.buffer_ # vec'[u].data_.buffer_]_vars

\* C14 happens: a copy construction gave Vector 1 a buffer of its own with
\* the two different elements of Vector 2.
C14_Witness ==
    /\ last.op = "Vector(const&)" /\ last.fail = "none"
    /\ vec[1].alive /\ vec[2].alive
    /\ Size(1) = 2 /\ Contents(1) = Contents(2)
    /\ Contents(1)[1] # Contents(1)[2]
    /\ vec[1].data_.buffer_ # vec[2].data_.buffer_

\* C15: a copy assignment v = u of distinct Vectors leaves u as it was and,
\* when it returns, v with the size and the element values of u and no
\* element lost.  With u.size > v.capacity it takes the path of a new buffer,
\* of capacity u.size, and a failure leaves v as it was.  With
\* u.size <= v.capacity the buffer and the capacity of v stay: exactly the
\* first u.size slots hold objects afterwards, the common prefix assigned, the
\* rest copy-constructed (u.size > v.size) or destroyed (u.size < v.size).
C15_CopyAssignment ==
    [][(last'.op = "operator=(const&)") =>
       \A v \in Vecs : \A u \in Vecs \ {v} : \A f \in Recorded :
         CopyAssign(v, u, f)
           => /\ Untouched(u)
              /\ f = NoFail =>
                    /\ Size(v)' = Size(u)
                    /\ Contents(v)' = Contents(u)
                    /\ LiveLayout(v)'
                    /\ ~last'.lost
              /\ Size(u) > Capacity(v) =>
                    /\ last'.realloc
                    /\ f = NoFail => Capacity(v)' = Size(u)
                    /\ f # NoFail => Untouched(v)
              /\ Size(u) <= Capacity(v) =>
                    /\ ~last'.realloc
                    /\ vec'[v].data_ = vec[v].data_
                    /\ TotalLive' - TotalLive = Size(v)' - Size(v)]_vars

\* C15 happens: a copy assignment into a buffer with room overwrote or built
\* two different elements.
C15_Witness ==
    /\ last.op = "operator=(const&)" /\ last.fail = "none" /\ ~last.realloc
    /\ Size(1) = 2 /\ Capacity(1) = 2
    /\ Contents(1) = Contents(2)
    /\ Contents(1)[1] # Contents(1)[2]

\* C16: when, in a copy assignment v = u with u.size <= v.capacity, the
\* assignment of the element at index k throws, the elements of v at the
\* indices below k hold the values of u, those above k are what they were,
\* the size, the capacity and the buffer of v are unchanged and exactly the
\* slots [0, size) of v hold objects; u is as it was.
C16_AssignmentFailureIsWeak ==
    [][(last'.op = "operator=(const&)" /\ last'.fail = "assign") =>
       \A v \in Vecs : \A u \in Vecs \ {v} : \A f \in Recorded :
         CopyAssign(v, u, f)
           => /\ Size(u) <= Capacity(v)
              /\ vec'[v] = vec[v]
              /\ \A i \in 0..(Size(v) - 1) :
                    /\ i < f.k - 1 => Contents(v)'[i + 1] = Contents(u)[i + 1]
                    /\ i > f.k - 1 => Contents(v)'[i + 1] = Contents(v)[i + 1]
              /\ LiveLayout(v)'
              /\ ~last'.lost
              /\ Untouched(u)]_vars

\* C16 happens: a copy assignment failed in an element assignment and left
\* its target of two elements equal to the source in the first and different
\* from it in the second.
C16_Witness ==
    /\ last.op = "operator=(const&)" /\ last.fail = "assign"
    /\ Size(1) = 2 /\ Size(2) = 2
    /\ Contents(1)[1] = Contents(2)[1]
    /\ Contents(1)[2] # Contents(2)[2]

\* C17: a Resize(n) that returns, on a Vector of size s, leaves size n; the
\* elements at the indices below min(s, n) keep their values; with n > s the
\* elements at [s, n) are value-initialised ones, constructed in slots that
\* held no object, and the capacity is n when n exceeded it; with n < s
\* exactly the s - n trailing elements are destroyed, their slots hold no
\* object afterwards, and the buffer and the capacity are unchanged.  So
\* Resize(0) then Resize(n) leaves n value-initialised elements, none of
\* them an old one.
C17_Resize ==
    [][(last'.op = "Resize" /\ last'.fail = "none") =>
       \A n \in 0..MaxCap :
         Resize(1, n, NoFail)
           => /\ Size(1)' = n
              /\ \A i \in 1..Size(1) : i <= n => Contents(1)'[i] = Contents(1)[i]
              /\ n > Size(1) =>
                    /\ \A i \in (Size(1) + 1)..n : Contents(1)'[i] = DefaultValue
                    /\ Capacity(1)' = IF n > Capacity(1) THEN n ELSE Capacity(1)
                    /\ LiveLayout(1) => (~last'.lost /\ LiveLayout(1)')
              /\ n < Size(1) =>
                    /\ vec'[1].data_ = vec[1].data_
                    /\ LiveCount(1)' = LiveCount(1) - (Size(1) - n)
                    /\ \A i \in (n + 1)..Size(1) : heap'[vec'[1].data_.buffer_].slots[i] = Raw
                    /\ ~last'.lost
              /\ (Size(1) = 0 /\ LiveLayout(1)) =>
                    /\ \A i \in 1..n : Contents(1)'[i] = DefaultValue
                    /\ LiveCount(1)' = n]_vars

\* C17 happens: a Resize beyond the capacity kept the one element of the
\* Vector and added three value-initialised ones.
C17_Witness ==
    /\ last.op = "Resize" /\ last.fail = "none" /\ last.realloc
    /\ Size(1) = 4 /\ Capacity(1) = 4
    /\ Contents(1) = <<OtherValue, DefaultValue, DefaultValue, DefaultValue>>

\* C18: Vector(N) has size N, capacity N and N elements equal to a
\* value-initialised one, in a region of its own when N > 0; for N = 0, as
\* for Vector(), no memory is allocated; and the destruction of a Vector
\* just constructed empty destroys no element and releases no region.
C18_SizeConstruction ==
    [][/\ (last'.op = "Vector(n)" /\ last'.fail = "none") =>
          \A n \in 0..MaxCap :
            SizeCtor(1, n, NoFail)
              => /\ Size(1)' = n
                 /\ Capacity(1)' = n
                 /\ Contents(1)' = [i \in 1..n |-> DefaultValue]
                 /\ LiveLayout(1)'
                 /\ TotalLive' = TotalLive + n
                 /\ n = 0 => (vec'[1].data_.buffer_ = Null /\ heap' = heap)
                 /\ n > 0 => (vec'[1].data_.buffer_ # Null
                               /\ ~heap[vec'[1].data_.buffer_].alloc
                               /\ heap'[vec'[1].data_.buffer_].alloc)
       /\ (last'.op = "Vector()" /\ DefaultCtor(1)) =>
             (Size(1)' = 0 /\ Capacity(1)' = 0 /\ vec'[1].data_.buffer_ = Null /\ heap' = heap)
       /\ (last'.op = "~Vector" /\ last.op \in {"Vector()", "Vector(n)"} /\ last.fail = "none"
              /\ Size(1) = 0 /\ Dtor(1)) =>
             (heap' = heap /\ TotalLive' = TotalLive /\ ~last'.lost /\ ~last'.dbl)]_vars

\* C18 happens: Vector(0) was constructed and holds no region, and no region
\* is allocated.
C18_Witness ==
    /\ last.op = "Vector(n)" /\ last.fail = "none"
    /\ vec[1].alive /\ Size(1) = 0 /\ Capacity(1) = 0
    /\ vec[1].data_.buffer_ = Null
    /\ \A r \in Regions : ~heap[r].alloc

\* C19: when the argument of PushBack / EmplaceBack or Insert / Emplace is a
\* reference to the element v[j] of the Vector itself, the element inserted
\* has the value v[j] had before the call and the other elements are as
\* after the insertion of that value, on the reallocating path (Vector full)
\* as on the in-place path.
C19_SelfAliasedArgument ==
    [][(last'.op \in {"EmplaceBack", "Emplace"} /\ last'.fail = "none" /\ last'.u = 1) =>
       \A j \in 0..(MaxCap - 1) :
         /\ EmplaceBack(1, Ref(j), NoFail)
              => /\ Contents(1)' = Append(Contents(1), Contents(1)[j + 1])
                 /\ last'.realloc <=> (Size(1) = Capacity(1))
         /\ \A i \in 0..MaxCap :
              Emplace(1, i, Ref(j), NoFail)
                => /\ Contents(1)' = InsertAt(Contents(1), i, Contents(1)[j + 1])
                   /\ Contents(1)'[i + 1] = Contents(1)[j + 1]
                   /\ last'.ret = i
                   /\ last'.realloc <=> (Size(1) = Capacity(1))]_vars

\* C19 happens: an in-place Insert at index 0 of the Vector's own second
\* element, which the shift moved, put its value first.
C19_Witness ==
    /\ last.op = "Emplace" /\ last.u = 1 /\ last.fail = "none" /\ ~last.realloc
    /\ last.ret = 0
    /\ Size(1) = 3
    /\ Contents(1)[1] = Contents(1)[3]
    /\ Contents(1)[1] # Contents(1)[2]
====
